---- MODULE Spec2Model ----
(***************************************************************************)
(* The intake form controller (App), its attachment encoder (fileToPart)   *)
(* and the service call (generatePrescription) as a state machine.         *)
(*                                                                         *)
(* A step is one event handler of the component, or one completion of an   *)
(* asynchronous operation awaited by handleSubmit, run to its end.         *)
(* Strings that the code only tests for emptiness are TLA+ strings; the    *)
(* two free-text areas are sequences of characters so that trim() is       *)
(* computed.  isDragging is not modelled: it is set and cleared inside one *)
(* drag gesture and read only by the drop zone's class name.               *)
(***************************************************************************)
EXTENDS Naturals, Sequences, FiniteSets

\* ---------------------------------------------------------------- bounds
MaxTextLen == 1
MaxFiles == 2
MaxBatch == 2

\* ------------------------------------------------------- JavaScript values
Null == [js |-> "null"]
Undefined == [js |-> "undefined"]
Str(s) == [js |-> "string", value |-> s]
Object(fields) == [js |-> "object", fields |-> fields]
\* a template literal, as its constant pieces and the values put between them
Template(pieces) == [js |-> "template", pieces |-> pieces]

\* ToBoolean of the values a state variable can hold
truthy(v) ==
  CASE v.js = "null" -> FALSE
    [] v.js = "undefined" -> FALSE
    [] v.js = "string" -> v.value # ""
    [] v.js = "template" -> v.pieces # <<>>
    [] v.js = "object" -> TRUE

\* ------------------------------------------------------------- types.ts
TreatmentType ==
  {"Hikmat (Traditional Herbal)", "Homeopathy", "Allopathy (Specialist Doctors)"}

ReligiousTreatments ==
  [r \in {"Islam", "Christianity", "Hinduism", "Buddhism", "Sikhism", "Judaism",
          "Baha'i Faith", "Chinese Folk Religion", "Spiritism",
          "Ethnic/Indigenous Religions"} |->
     CASE r = "Islam" -> "Quran & Asma-ul-Husna"
       [] r = "Christianity" -> "Biblical Healing & Prayer"
       [] r = "Hinduism" -> "Ayurveda & Mantras"
       [] r = "Buddhism" -> "Meditation & Chanting"
       [] r = "Sikhism" -> "Gurbani Recitation & Seva"
       [] r = "Judaism" -> "Torah Study & Prayer"
       [] r = "Baha'i Faith" -> "Writings of Baha'u'llah & Prayer"
       [] r = "Chinese Folk Religion" -> "Ancestral Veneration & Herbal Remedies"
       [] r = "Spiritism" -> "Spiritual Counsel & Healing"
       [] r = "Ethnic/Indigenous Religions" -> "Traditional Rituals & Natural Healing"]

\* ReligiousTreatments[religion as keyof typeof ReligiousTreatments]
religiousTreatmentOf(religion) ==
  IF religion \in DOMAIN ReligiousTreatments
    THEN Str(ReligiousTreatments[religion])
    ELSE Undefined

\* ----------------------------------------------------- the form's options
ReligionOptions ==
  {"Islam", "Christianity", "Hinduism", "Buddhism", "Sikhism", "Judaism",
   "Baha'i Faith", "Chinese Folk Religion", "Spiritism",
   "Ethnic/Indigenous Religions", "Other"}

supportedLanguages ==
  {"English", "Mandarin Chinese", "Hindi", "Spanish", "French",
   "Arabic", "Bengali", "Portuguese", "Russian", "Urdu"}

\* ------------------------------------------------ inputs the model draws
Fields == {"name", "age", "district", "cell", "religion", "language"}

Chars == {" ", "x"}
Texts == UNION {[1..n -> Chars] : n \in 0..MaxTextLen}
CommentTexts == {<<>>, <<"x">>}

\* 10 * 1024 * 1024
MaxFileSize == 10 * 1024 * 1024

PngFile == [name |-> "a.png", type |-> "image/png", size |-> 1, content |-> "A"]
PdfFile ==
  [name |-> "b.pdf", type |-> "application/pdf", size |-> MaxFileSize - 1,
   content |-> "B"]
GifFile == [name |-> "c.gif", type |-> "image/gif", size |-> 1, content |-> "C"]
BigJpegFile ==
  [name |-> "d.jpg", type |-> "image/jpeg", size |-> MaxFileSize, content |-> "D"]
TestFiles == {PngFile, PdfFile, GifFile, BigJpegFile}

FileList(items) == [js |-> "object", items |-> items]
FileListsOver(files) ==
  {FileList(items) : items \in UNION {[1..n -> files] : n \in 0..MaxBatch}}

\* The reply text of the service: a JSON object given by its members in the
\* order they are written, the JSON literal null, or text that is no JSON.
JsonObject(members) == [json |-> "object", members |-> members]
CompleteReply ==
  JsonObject(<< <<"illnessTitle", "Flu">>, <<"prescriptionContent", "Rest">>,
                <<"advice", "Water">> >>)
ReorderedReply ==
  JsonObject(<< <<"advice", "Sleep">>, <<"illnessTitle", "Cold">>,
                <<"prescriptionContent", "Tea">> >>)
ReplyWithoutAdvice ==
  JsonObject(<< <<"illnessTitle", "Flu">>, <<"prescriptionContent", "Rest">> >>)
JsonNull == [json |-> "null"]
InvalidJson == [json |-> "invalid"]
ReplyTexts ==
  {CompleteReply, ReorderedReply, ReplyWithoutAdvice, JsonNull, InvalidJson}

\* ------------------------------------------------------------- messages
ValidationMessage ==
  Str("Please fill all required fields, describe your symptoms or upload a report, and select at least one treatment type.")
InvalidFilesMessage ==
  Str("Some files were invalid. Only JPG, PNG, and PDF files under 10MB are accepted.")
ServiceFailureMessage ==
  Str("Failed to get a response from the AI. Please try again.")

\* ---------------------------------------------------------------- state
VARIABLES
  patientInfo,         \* useState<PatientInfo>
  symptomDescription,  \* useState<string>
  reportComments,      \* useState<string>
  selectedTreatments,  \* useState<Set<string>>
  isLoading,           \* useState<boolean>
  error,               \* useState<string | null>
  prescription,        \* useState<PrescriptionData | null>
  activeTab,           \* useState<'text' | 'upload'>
  uploadedFiles,       \* useState<File[]>
  pc,                  \* where the running handleSubmit is suspended
  reads,               \* the FileReader of each file of the running submission
  loadOrder,           \* the files of the running submission, as their reads ended
  request,             \* the generateContent call in flight
  outstanding,         \* number of generateContent calls in flight
  calls,               \* calls issued by the latest accepted submission
  lastOp               \* the handler or completion that ran last

formVars ==
  <<patientInfo, symptomDescription, reportComments, selectedTreatments,
    activeTab, uploadedFiles>>
asyncVars == <<pc, reads, loadOrder, request, outstanding, calls>>
vars ==
  <<patientInfo, symptomDescription, reportComments, selectedTreatments,
    isLoading, error, prescription, activeTab, uploadedFiles,
    pc, reads, loadOrder, request, outstanding, calls, lastOp>>

NoRequest == [none |-> TRUE]

InitialPatientInfo ==
  [name |-> "", age |-> "", district |-> "", cell |-> "", religion |-> "",
   language |-> "English"]

\* the arguments of the useState calls
initialState ==
  /\ patientInfo = InitialPatientInfo
  /\ symptomDescription = <<>>
  /\ reportComments = <<>>
  /\ selectedTreatments = {}
  /\ isLoading = FALSE
  /\ error = Null
  /\ prescription = Null
  /\ activeTab = "text"
  /\ uploadedFiles = <<>>

Init ==
  /\ initialState
  /\ pc = "idle"
  /\ reads = <<>>
  /\ loadOrder = <<>>
  /\ request = NoRequest
  /\ outstanding = 0
  /\ calls = 0
  /\ lastOp = "init"

\* ------------------------------------------------------ what is on screen
\* {!prescription ? <form ...> : <Prescription ... />}
formShown == ~truthy(prescription)

\* {isLoading && <LoadingScreen />}: a fixed full-window layer over the form
formReachable == formShown /\ ~isLoading

\* a submit button that is never disabled
submitEnabledWhileLoading == formShown

\* <button type="submit" disabled={isLoading}>
submitEnabled == formShown /\ ~isLoading

\* ------------------------------------------------------------ text helpers
isWhiteSpace(c) == c = " "

RECURSIVE trimStart(_)
trimStart(s) ==
  IF s = <<>> THEN s
  ELSE IF isWhiteSpace(Head(s)) THEN trimStart(Tail(s)) ELSE s

RECURSIVE trimEnd(_)
trimEnd(s) ==
  IF s = <<>> THEN s
  ELSE IF isWhiteSpace(s[Len(s)]) THEN trimEnd(SubSeq(s, 1, Len(s) - 1)) ELSE s

\* String.prototype.trim
trim(s) == trimEnd(trimStart(s))

\* ------------------------------------------------------------ file handling
acceptedTypes == {"image/jpeg", "image/png", "application/pdf"}

\* a size test that lets a file of exactly the limit through
isValidFileUpToLimit(file) ==
  file.type \in acceptedTypes /\ file.size <= MaxFileSize

\* the predicate of newFiles.filter(...)
isValidFile(file) == file.type \in acceptedTypes /\ file.size < MaxFileSize

validFilesOf(newFiles) == SelectSeq(newFiles, isValidFile)

handleFiles(files) ==
  /\ formReachable /\ activeTab = "upload"
  /\ IF ~truthy(files)
       THEN UNCHANGED <<error, uploadedFiles>>
       ELSE LET newFiles == files.items
                validFiles == validFilesOf(newFiles) IN
            /\ Len(uploadedFiles) + Len(validFiles) <= MaxFiles
            /\ error' = IF Len(validFiles) # Len(newFiles) THEN InvalidFilesMessage
                        ELSE error
            /\ uploadedFiles' = uploadedFiles \o validFiles
  /\ lastOp' = "handleFiles"
  /\ UNCHANGED <<patientInfo, symptomDescription, reportComments,
                 selectedTreatments, isLoading, prescription, activeTab>>
  /\ UNCHANGED asyncVars

removeFile(fileName) ==
  /\ formReachable /\ activeTab = "upload"
  /\ \E i \in 1..Len(uploadedFiles) : uploadedFiles[i].name = fileName
  /\ uploadedFiles' = SelectSeq(uploadedFiles, LAMBDA file : file.name # fileName)
  /\ lastOp' = "removeFile"
  /\ UNCHANGED <<patientInfo, symptomDescription, reportComments,
                 selectedTreatments, isLoading, error, prescription, activeTab>>
  /\ UNCHANGED asyncVars

\* ------------------------------------------------------------ field edits
\* an updater that starts from an empty set instead of a copy of prev
withoutTreatmentFromEmpty(prev, treatment) == {} \ {treatment}

\* the updater of setSelectedTreatments in handleInputChange
withoutTreatment(prev, treatment) == prev \ {treatment}

handleInputChange(name, value) ==
  /\ formReachable
  /\ value # patientInfo[name]
  /\ IF name = "religion" /\ truthy(religiousTreatmentOf(patientInfo.religion))
       THEN selectedTreatments' =
              withoutTreatment(selectedTreatments,
                               religiousTreatmentOf(patientInfo.religion).value)
       ELSE UNCHANGED selectedTreatments
  /\ patientInfo' = [patientInfo EXCEPT ![name] = value]
  /\ lastOp' = IF name = "religion" THEN "handleInputChange(religion)"
                ELSE "handleInputChange"
  /\ UNCHANGED <<symptomDescription, reportComments, isLoading, error,
                 prescription, activeTab, uploadedFiles>>
  /\ UNCHANGED asyncVars

\* a list that draws the label of every religion
treatmentCheckboxesOfEveryReligion ==
  TreatmentType \cup {ReligiousTreatments[r] : r \in DOMAIN ReligiousTreatments}

\* the checkboxes drawn: every TreatmentType, and religiousTreatment if any
treatmentCheckboxes ==
  TreatmentType \cup
    (IF truthy(religiousTreatmentOf(patientInfo.religion))
       THEN {religiousTreatmentOf(patientInfo.religion).value} ELSE {})

\* the updater of setSelectedTreatments in handleTreatmentToggle
toggled(prev, treatment) ==
  IF treatment \in prev THEN prev \ {treatment} ELSE prev \cup {treatment}

handleTreatmentToggle(treatment) ==
  /\ formReachable
  /\ treatment \in treatmentCheckboxes
  /\ selectedTreatments' = toggled(selectedTreatments, treatment)
  /\ lastOp' = "handleTreatmentToggle"
  /\ UNCHANGED <<patientInfo, symptomDescription, reportComments, isLoading,
                 error, prescription, activeTab, uploadedFiles>>
  /\ UNCHANGED asyncVars

setSymptomDescription(value) ==
  /\ formReachable /\ activeTab = "text"
  /\ value # symptomDescription
  /\ symptomDescription' = value
  /\ lastOp' = "setSymptomDescription"
  /\ UNCHANGED <<patientInfo, reportComments, selectedTreatments, isLoading,
                 error, prescription, activeTab, uploadedFiles>>
  /\ UNCHANGED asyncVars

setReportComments(value) ==
  /\ formReachable /\ activeTab = "upload"
  /\ value # reportComments
  /\ reportComments' = value
  /\ lastOp' = "setReportComments"
  /\ UNCHANGED <<patientInfo, symptomDescription, selectedTreatments, isLoading,
                 error, prescription, activeTab, uploadedFiles>>
  /\ UNCHANGED asyncVars

setActiveTab(tab) ==
  /\ formReachable
  /\ tab # activeTab
  /\ activeTab' = tab
  /\ lastOp' = "setActiveTab"
  /\ UNCHANGED <<patientInfo, symptomDescription, reportComments,
                 selectedTreatments, isLoading, error, prescription,
                 uploadedFiles>>
  /\ UNCHANGED asyncVars

\* ------------------------------------------------- the Prescription's buttons
\* a reset that leaves the upload tab open
resetFormKeepingTab ==
  /\ ~formShown
  /\ patientInfo' = [name |-> "", age |-> "", district |-> "", cell |-> "",
                     religion |-> "", language |-> "English"]
  /\ symptomDescription' = <<>>
  /\ reportComments' = <<>>
  /\ selectedTreatments' = {}
  /\ prescription' = Null
  /\ error' = Null
  /\ uploadedFiles' = <<>>
  /\ lastOp' = "resetForm"
  /\ UNCHANGED <<isLoading, activeTab>>
  /\ UNCHANGED asyncVars

resetForm ==
  /\ ~formShown
  /\ patientInfo' = [name |-> "", age |-> "", district |-> "", cell |-> "",
                     religion |-> "", language |-> "English"]
  /\ symptomDescription' = <<>>
  /\ reportComments' = <<>>
  /\ selectedTreatments' = {}
  /\ prescription' = Null
  /\ error' = Null
  /\ uploadedFiles' = <<>>
  /\ activeTab' = "text"
  /\ lastOp' = "resetForm"
  /\ UNCHANGED isLoading
  /\ UNCHANGED asyncVars

\* an edit that also drops the uploaded files
handleEditDroppingFiles ==
  /\ ~formShown
  /\ prescription' = Null
  /\ uploadedFiles' = <<>>
  /\ lastOp' = "handleEdit"
  /\ UNCHANGED <<patientInfo, symptomDescription, reportComments,
                 selectedTreatments, isLoading, error, activeTab>>
  /\ UNCHANGED asyncVars

handleEdit ==
  /\ ~formShown
  /\ prescription' = Null
  /\ lastOp' = "handleEdit"
  /\ UNCHANGED <<patientInfo, symptomDescription, reportComments,
                 selectedTreatments, isLoading, error, activeTab, uploadedFiles>>
  /\ UNCHANGED asyncVars


\* ------------------------------------------------------ attachment encoder
\* btoa of the file's bytes
base64(content) == <<"base64", content>>

\* FileReader.readAsDataURL: "data:<type>;base64,<data>", kept as the pieces
\* on either side of the comma
readAsDataURL(file) == << <<"data:", file.type, ";base64">>, base64(file.content) >>

\* what reader.onload resolves and fileToPart returns
fileToPart(file) ==
  [inlineData |-> [mimeType |-> file.type, data |-> readAsDataURL(file)[2]]]

\* ------------------------------------------------------------- the service
\* [...selectedTreatments]: the members of the Set as an array.  The model's
\* set keeps no insertion order, so the array lists them in one fixed order.
RECURSIVE spread(_)
spread(set) ==
  IF set = {}
    THEN <<>>
    ELSE LET first == CHOOSE x \in set : TRUE
         IN <<first>> \o spread(set \ {first})

\* Array.prototype.join: the items with the separator between neighbours
RECURSIVE join(_, _)
join(items, separator) ==
  IF Len(items) = 0 THEN <<>>
  ELSE IF Len(items) = 1 THEN <<items[1]>>
  ELSE <<items[1], separator>> \o join(Tail(items), separator)

hasFilesWhenSeveral(files) == Len(files) > 1

\* const hasFiles = files.length > 0
hasFiles(files) == Len(files) > 0

UrduScriptMandate == " If the target language is Urdu, this MUST be in Urdu script."

\* what each religious label is told to provide
religiousInstruction ==
  [label \in {ReligiousTreatments[r] : r \in DOMAIN ReligiousTreatments} |->
     CASE label = ReligiousTreatments["Islam"] ->
            "provide relevant Quranic verses or duas, and recommend 'tasbeeh' (recitation) of Asma-ul-Husna relevant to healing."
       [] label = ReligiousTreatments["Christianity"] ->
            "provide relevant Bible verses and suggest prayers."
       [] label = ReligiousTreatments["Hinduism"] ->
            "provide relevant Ayurvedic remedies and suggest healing mantras."
       [] label = ReligiousTreatments["Buddhism"] ->
            "suggest meditation techniques and healing chants or sutras."
       [] label = ReligiousTreatments["Sikhism"] ->
            "recommend reciting Shabads from the Gurbani and suggest 'Seva' (selfless service)."
       [] label = ReligiousTreatments["Judaism"] ->
            "provide relevant passages from the Torah or Psalms and suggest prayers."
       [] label = ReligiousTreatments["Baha'i Faith"] ->
            "provide excerpts from the Writings of Baha'u'llah and suggest prayers for health."
       [] label = ReligiousTreatments["Chinese Folk Religion"] ->
            "suggest practices like ancestral offerings and common herbal remedies."
       [] label = ReligiousTreatments["Spiritism"] ->
            "provide spiritual counsel and suggest practices like positive affirmations."
       [] label = ReligiousTreatments["Ethnic/Indigenous Religions"] ->
            "suggest connecting with nature and general traditional rituals."]

\* the table of rule fragments, keyed by religious label
religiousTreatmentPrompts ==
  [label \in DOMAIN religiousInstruction |->
     Template(<<"- For \"", label, "\", ", religiousInstruction[label],
                " Use bullet points.">>
              \o (IF label = ReligiousTreatments["Islam"]
                    THEN <<UrduScriptMandate>> ELSE <<>>))]

\* religiousTreatmentPrompts[treatment]: undefined for a key the table lacks
promptFor(treatment) ==
  IF treatment \in DOMAIN religiousTreatmentPrompts
    THEN religiousTreatmentPrompts[treatment]
    ELSE Undefined

religiousRulesOfEveryReligion(treatments) ==
  [i \in 1..Cardinality(DOMAIN religiousTreatmentPrompts) |->
     religiousTreatmentPrompts[spread(DOMAIN religiousTreatmentPrompts)[i]]]

\* selectedTreatments.map(t => religiousTreatmentPrompts[t]).filter(Boolean)
religiousRules(treatments) ==
  SelectSeq([i \in 1..Len(treatments) |-> promptFor(treatments[i])], truthy)

\* the medicine, dosage, duration format, one bullet point per item; the
\* format itself stands between backquotes in the source
AllopathyFormat ==
  <<"Use the format: ",
    "Medicine Name, Dosage (e.g., 500mg, 1+1+1), Duration (e.g., 5 days)",
    ". List each item on a new bullet point (", "*", ").">>
AllopathyRule ==
  Template(<<"- For **Allopathy (Specialist Doctors)**, act as a board-certified specialist for the specific condition. Prescribe a comprehensive, high-quality, and modern treatment plan. Include primary medications, any necessary supportive therapies (e.g., vitamins, antacids), and suggest relevant diagnostic tests if needed. ",
             AllopathyFormat[1], AllopathyFormat[2], AllopathyFormat[3],
             AllopathyFormat[4], AllopathyFormat[5],
             " Ensure the prescription is evidence-based and professional.">>)
HomeopathyRule ==
  Template(<<"- For **Homeopathy**, use this format: ",
             "Medicine Name Potency, Dosage (e.g., 5+5+5 drops), Duration (e.g., 7 days)",
             ". New bullet point (",
             "*", ") per medicine. No paragraphs.">>)
HikmatRule ==
  Template(<<"- For **Hikmat**, use simple bullet points with brief descriptions.">>)

StartWithReportSummary ==
  "- The 'prescriptionContent' value MUST start with the 'Report Analysis Summary' section."
HeadingPerTreatment ==
  "- The 'prescriptionContent' value MUST contain a level 2 heading for each treatment type (e.g., \"Homeopathy Prescription\"), translated to "
AdviceSection == "- The 'advice' value MUST contain the 'General Advice' section."
OnlyAbnormalFindings ==
  "List **ONLY abnormal findings** in bullet points. Do not mention normal results."

\* the task given when reports are attached
reportTask(language, treatments) ==
  [basis |-> <<"Based on the provided information and reports, perform these tasks in ", language>>,
   steps |-> <<"Create Illness Title", "Analyze Reports",
               "Provide Treatment Opinion", "Provide General Advice">>,
   titleWords |-> 5,
   analysis |-> <<"Report Analysis Summary", language, OnlyAbnormalFindings>>,
   methodologies |-> join(treatments, ", "),
   responseStructure |-> << <<StartWithReportSummary>>, <<AdviceSection>> >>]

\* the task given when there is no attachment
descriptionTask(language, treatments) ==
  [basis |-> <<"Based on the provided information, perform these tasks in ", language>>,
   steps |-> <<"Create Illness Title", "Provide Treatment Plans",
               "Provide General Advice">>,
   titleWords |-> 4,
   methodologies |-> join(treatments, ", "),
   responseStructure |-> << <<HeadingPerTreatment, language, ".">>,
                            <<AdviceSection>> >>]

\* const prompt: the template literal, by its sections
prompt(info, illnessDescription, treatments, files) ==
  [primaryLanguageRule |->
     <<"- You MUST generate the ENTIRE response in **", info.language, "**.">>,
   formattingRules |->
     <<AllopathyRule, HomeopathyRule, HikmatRule>> \o religiousRules(treatments),
   patientInformation |->
     << <<"- Name: ", info.name>>, <<"- Age: ", info.age>>,
        <<"- District: ", info.district>>, <<"- Religion: ", info.religion>>,
        <<"- Preferred Language: ", info.language>> >>
     \o (IF info.cell # "" THEN << <<"- Cell: ", info.cell>> >> ELSE <<>>),
   description |->
     [heading |-> IF hasFiles(files) THEN "**User Comments on Reports:**"
                                     ELSE "**Illness Description:**",
      text |-> illnessDescription],
   task |-> IF hasFiles(files) THEN reportTask(info.language, treatments)
                               ELSE descriptionTask(info.language, treatments)]

\* the arguments of generatePrescription and the parts handed to generateContent
generatePrescriptionCall(info, illnessDescription, treatments, files) ==
  [patientInfo |-> info,
   illnessDescription |-> illnessDescription,
   selectedTreatments |-> treatments,
   hasFiles |-> hasFiles(files),
   files |-> files,
   prompt |-> prompt(info, illnessDescription, treatments, files)]

\* JSON.parse(response.text): the value, or a thrown SyntaxError
ParseFailure == [thrown |-> "SyntaxError"]
JSONparse(text) ==
  CASE text.json = "invalid" -> ParseFailure
    [] text.json = "null" -> Null
    [] text.json = "object" ->
       Object(
         [k \in {text.members[i][1] : i \in 1..Len(text.members)} |->
            LET last == CHOOSE i \in 1..Len(text.members) :
                          /\ text.members[i][1] = k
                          /\ \A j \in 1..Len(text.members) :
                               text.members[j][1] = k => j <= i
            IN text.members[last][2]])

\* ------------------------------------------------------------ handleSubmit
descriptionForApi ==
  IF activeTab = "text" THEN symptomDescription ELSE reportComments

\* an input check that does not trim the symptom text
isInputMissingUntrimmed ==
  \/ activeTab = "text" /\ symptomDescription = <<>>
  \/ activeTab = "upload" /\ Len(uploadedFiles) = 0

isInputMissing ==
  \/ activeTab = "text" /\ trim(symptomDescription) = <<>>
  \/ activeTab = "upload" /\ Len(uploadedFiles) = 0

\* a validation that forgets the treatment selection
validationFailsIgnoringTreatments ==
  \/ patientInfo.name = ""
  \/ patientInfo.age = ""
  \/ patientInfo.district = ""
  \/ patientInfo.religion = ""
  \/ patientInfo.language = ""
  \/ isInputMissing

\* the condition of the if that ends in setError(...); return
validationFails ==
  \/ patientInfo.name = ""
  \/ patientInfo.age = ""
  \/ patientInfo.district = ""
  \/ patientInfo.religion = ""
  \/ patientInfo.language = ""
  \/ isInputMissing
  \/ selectedTreatments = {}

\* generatePrescription is entered: generateContent is called once
issueCall(parts) ==
  /\ pc' = "calling"
  /\ reads' = <<>>
  /\ request' = generatePrescriptionCall(patientInfo, descriptionForApi,
                                         spread(selectedTreatments), parts)
  /\ outstanding' = outstanding + 1
  /\ calls' = calls + 1

handleSubmit ==
  /\ submitEnabled
  /\ lastOp' = "handleSubmit"
  /\ IF validationFails
       THEN /\ error' = ValidationMessage
            /\ UNCHANGED <<isLoading, prescription>>
            /\ UNCHANGED asyncVars
       ELSE /\ error' = Null
            /\ isLoading' = TRUE
            /\ prescription' = Null
            /\ IF Len(uploadedFiles) = 0
                 THEN \* Promise.all([]) is already resolved
                      /\ pc' = "calling"
                      /\ reads' = <<>>
                      /\ loadOrder' = <<>>
                      /\ request' = generatePrescriptionCall(
                                      patientInfo, descriptionForApi,
                                      spread(selectedTreatments), <<>>)
                      /\ outstanding' = outstanding + 1
                      /\ calls' = 1
                 ELSE /\ pc' = "encoding"
                      /\ reads' = [i \in 1..Len(uploadedFiles) |-> "pending"]
                      /\ loadOrder' = <<>>
                      /\ calls' = 0
                      /\ UNCHANGED <<request, outstanding>>
  /\ UNCHANGED formVars

\* a collection filled as each read ends
partsInCompletionOrder(files, order) ==
  [k \in 1..Len(order) |-> fileToPart(files[order[k]])]

\* the value of Promise.all(uploadedFiles.map(fileToPart)): one part per file,
\* at the index of its file, whatever the order in which the reads ended
promiseAllParts(files, order) ==
  [j \in 1..Len(files) |-> fileToPart(files[j])]

\* reader.onload of the i-th file; the last one resolves Promise.all
readerOnload(i) ==
  /\ pc = "encoding"
  /\ i \in DOMAIN reads /\ reads[i] = "pending"
  /\ loadOrder' = Append(loadOrder, i)
  /\ IF \A j \in DOMAIN reads : j # i => reads[j] = "loaded"
       THEN issueCall(promiseAllParts(uploadedFiles, Append(loadOrder, i)))
       ELSE /\ reads' = [reads EXCEPT ![i] = "loaded"]
            /\ UNCHANGED <<pc, request, outstanding, calls>>
  /\ lastOp' = "readerOnload"
  /\ UNCHANGED <<isLoading, error, prescription>>
  /\ UNCHANGED formVars

\* the message property of the event reader.onerror rejects with
progressEventMessage == Undefined

\* a catch without the finally: the loading flag is never cleared
readerOnerrorWithoutFinally(i) ==
  /\ pc = "encoding"
  /\ i \in DOMAIN reads /\ reads[i] = "pending"
  /\ error' = progressEventMessage
  /\ pc' = "idle"
  /\ reads' = <<>>
  /\ loadOrder' = <<>>
  /\ lastOp' = "readerOnerror"
  /\ UNCHANGED <<isLoading, prescription, request, outstanding, calls>>
  /\ UNCHANGED formVars

\* reader.onerror of the i-th file: Promise.all rejects, catch and finally run
readerOnerror(i) ==
  /\ pc = "encoding"
  /\ i \in DOMAIN reads /\ reads[i] = "pending"
  /\ error' = progressEventMessage
  /\ isLoading' = FALSE
  /\ pc' = "idle"
  /\ reads' = <<>>
  /\ loadOrder' = <<>>
  /\ lastOp' = "readerOnerror"
  /\ UNCHANGED <<prescription, request, outstanding, calls>>
  /\ UNCHANGED formVars

\* generateContent resolves with response.text = text
generateContentResolves(text) ==
  /\ pc = "calling"
  /\ LET result == JSONparse(text) IN
       IF result = ParseFailure
         THEN /\ error' = ServiceFailureMessage
              /\ UNCHANGED prescription
         ELSE /\ prescription' = result
              /\ UNCHANGED error
  /\ isLoading' = FALSE
  /\ pc' = "idle"
  /\ request' = NoRequest
  /\ outstanding' = outstanding - 1
  /\ loadOrder' = <<>>
  /\ lastOp' = "generateContentResolves"
  /\ UNCHANGED <<reads, calls>>
  /\ UNCHANGED formVars

\* generateContent rejects (network, quota, service error)
generateContentRejects ==
  /\ pc = "calling"
  /\ error' = ServiceFailureMessage
  /\ isLoading' = FALSE
  /\ pc' = "idle"
  /\ request' = NoRequest
  /\ outstanding' = outstanding - 1
  /\ loadOrder' = <<>>
  /\ lastOp' = "generateContentRejects"
  /\ UNCHANGED <<prescription, reads, calls>>
  /\ UNCHANGED formVars

\* ------------------------------------------------------------ specification
AllTreatments ==
  TreatmentType \cup {ReligiousTreatments[r] : r \in DOMAIN ReligiousTreatments}

\* one step of the session, its inputs drawn from the given sets
NextOn(fieldInputs, treatments, symptomTexts, commentTexts, fileLists, replyTexts) ==
  \/ \E files \in fileLists : handleFiles(files)
  \/ \E file \in TestFiles : removeFile(file.name)
  \/ \E name \in Fields : \E value \in fieldInputs[name] :
       handleInputChange(name, value)
  \/ \E treatment \in treatments : handleTreatmentToggle(treatment)
  \/ \E value \in symptomTexts : setSymptomDescription(value)
  \/ \E value \in commentTexts : setReportComments(value)
  \/ \E tab \in {"text", "upload"} : setActiveTab(tab)
  \/ resetForm
  \/ handleEdit
  \/ handleSubmit
  \/ \E i \in 1..MaxFiles : readerOnload(i)
  \/ \E i \in 1..MaxFiles : readerOnerror(i)
  \/ \E text \in replyTexts : generateContentResolves(text)
  \/ generateContentRejects

\* A fresh session in which the required fields are filled in and cleared,
\* the religion changes and every treatment is toggled; one small file.
FormFieldInputs ==
  [f \in Fields |->
     CASE f = "name" -> {"", "Aisha"}
       [] f = "age" -> {"", "29"}
       [] f = "district" -> {"", "Lahore"}
       [] f = "cell" -> {}
       [] f = "religion" -> {"Islam", "Christianity", "Other"}
       [] f = "language" -> {}]

Next ==
  NextOn(FormFieldInputs, AllTreatments, Texts, CommentTexts,
         {Null, FileList(<<PngFile>>)}, {CompleteReply, InvalidJson})

Spec == Init /\ [][Next]_vars

\* A session whose form already holds a patient: the optional fields, the
\* files and the service's replies vary.
InitSession ==
  /\ patientInfo = [name |-> "Aisha", age |-> "29", district |-> "Lahore",
                    cell |-> "", religion |-> "Islam", language |-> "English"]
  /\ symptomDescription = <<>>
  /\ reportComments = <<>>
  /\ selectedTreatments = {"Allopathy (Specialist Doctors)"}
  /\ isLoading = FALSE
  /\ error = Null
  /\ prescription = Null
  /\ activeTab = "text"
  /\ uploadedFiles = <<>>
  /\ pc = "idle"
  /\ reads = <<>>
  /\ loadOrder = <<>>
  /\ request = NoRequest
  /\ outstanding = 0
  /\ calls = 0
  /\ lastOp = "init"

SessionFieldInputs ==
  [f \in Fields |->
     CASE f = "name" -> {}
       [] f = "age" -> {}
       [] f = "district" -> {}
       [] f = "cell" -> {"", "0300"}
       [] f = "religion" -> {"Islam", "Other"}
       [] f = "language" -> {"English", "Urdu"}]

NextSession ==
  NextOn(SessionFieldInputs, {"Homeopathy", "Quran & Asma-ul-Husna"}, Texts,
         CommentTexts, FileListsOver(TestFiles), ReplyTexts)

SpecSession == InitSession /\ [][NextSession]_vars

\* The same session with every batch of files, valid or not, and few other
\* inputs.
FilesFieldInputs == [f \in Fields |-> IF f = "cell" THEN {"", "0300"} ELSE {}]

NextFiles ==
  NextOn(FilesFieldInputs, {"Homeopathy"}, {<<>>, <<"x">>}, CommentTexts,
         FileListsOver(TestFiles) \cup {Null}, {CompleteReply, InvalidJson})

SpecFiles == InitSession /\ [][NextFiles]_vars

\* every FileReader started fires onload or onerror
readCompletes == \E i \in 1..MaxFiles : readerOnload(i) \/ readerOnerror(i)

\* the promise of generateContent settles
callSettles ==
  \/ \E text \in {CompleteReply, InvalidJson} : generateContentResolves(text)
  \/ generateContentRejects

\* The session of SpecFiles in which the browser and the service answer.
SpecFilesFair ==
  /\ InitSession /\ [][NextFiles]_vars
  /\ WF_vars(readCompletes)
  /\ WF_vars(callSettles)

\* ================================================================== claims
requiredFields == {"name", "age", "district", "religion", "language"}

noCallIssued ==
  /\ pc = "idle" /\ reads = <<>> /\ request = NoRequest /\ outstanding = 0

\* C1: a submit with any of name, age, district, religion or language empty,
\* or with no treatment selected, is rejected: the validation error is set,
\* isLoading stays false, no attachment is read and no call is issued.
C1_IncompleteFormRejected ==
  (/\ lastOp = "handleSubmit"
   /\ \/ \E f \in requiredFields : patientInfo[f] = ""
      \/ Cardinality(selectedTreatments) = 0)
  => (error = ValidationMessage /\ ~isLoading /\ noCallIssued)

\* a submit was rejected only because no treatment is selected
C1_Witness ==
  /\ lastOp = "handleSubmit"
  /\ \A f \in requiredFields : patientInfo[f] # ""
  /\ selectedTreatments = {}
  /\ activeTab = "text" /\ symptomDescription = <<"x">>
  /\ error = ValidationMessage

\* the gate of the Editing -> Submitting transition, as the specification has it
modeInputPresent ==
  \/ activeTab = "text"
       /\ \E i \in 1..Len(symptomDescription) : symptomDescription[i] # " "
  \/ activeTab = "upload" /\ Len(uploadedFiles) >= 1

gate ==
  /\ \A f \in requiredFields : patientInfo[f] # ""
  /\ Cardinality(selectedTreatments) >= 1
  /\ modeInputPresent

\* C2: a submit enters Submitting exactly when the gate holds; otherwise it is
\* rejected with the validation error and no call.
C2_SubmitIffGate ==
  lastOp = "handleSubmit"
  => /\ isLoading <=> gate
     /\ isLoading => (pc # "idle" /\ error = Null /\ ~truthy(prescription))
     /\ ~isLoading => (error = ValidationMessage /\ noCallIssued)

\* a submit in upload mode was accepted although the symptom text is blank
C2_Witness ==
  /\ lastOp = "handleSubmit"
  /\ isLoading
  /\ activeTab = "upload"
  /\ symptomDescription = <<>>
  /\ Len(uploadedFiles) >= 1

\* ---------------------------------------------------------------- replies
requiredReplyFields == {"illnessTitle", "prescriptionContent", "advice"}

\* the reply is a JSON object holding each required field as a non-empty string
wellFormedReply(text) ==
  /\ text.json = "object"
  /\ \A k \in requiredReplyFields :
       \E i \in 1..Len(text.members) :
         text.members[i][1] = k /\ text.members[i][2] # ""

\* the value of field k written in the reply
replyField(text, k) ==
  text.members[CHOOSE i \in 1..Len(text.members) : text.members[i][1] = k][2]

\* C3: a well-formed reply becomes the Result with its three fields verbatim;
\* any other reply is never accepted: no Result is set and an error is shown.
C3_OnlyValidRepliesAccepted ==
  [][\A text \in ReplyTexts :
       generateContentResolves(text) =>
         IF wellFormedReply(text)
           THEN /\ truthy(prescription')
                /\ DOMAIN prescription'.fields = requiredReplyFields
                /\ \A k \in requiredReplyFields :
                     prescription'.fields[k] = replyField(text, k)
           ELSE ~truthy(prescription') /\ truthy(error')]_vars

\* ------------------------------------------------------------ submissions
\* C4: at most one call is outstanding, and only while Submitting; no submit
\* is accepted while Submitting; a submission issues at most one call, and a
\* call is issued only by a submission that has not issued one yet.
C4_OneCallPerSubmission ==
  /\ [](outstanding <= 1 /\ calls <= 1 /\ (outstanding = 1 => isLoading))
  /\ [][isLoading => lastOp' # "handleSubmit"]_vars
  /\ [][outstanding' > outstanding =>
          \/ lastOp' = "handleSubmit" /\ ~isLoading /\ isLoading'
          \/ lastOp' = "readerOnload" /\ isLoading /\ calls = 0]_vars
  /\ [][lastOp' \in {"generateContentRejects", "readerOnerror"} =>
          outstanding' = 0 /\ pc' = "idle"]_vars

\* a call is in flight after the files were read, and the form is closed
C4_Witness ==
  /\ isLoading /\ outstanding = 1 /\ calls = 1 /\ pc = "calling"
  /\ lastOp = "readerOnload"

\* ------------------------------------------------------------------ files
TenMiB == 10485760

acceptable(file) ==
  file.type \in {"image/jpeg", "image/png", "application/pdf"} /\ file.size < TenMiB

\* C5: every accepted file has an allowed type and a size below 10 MiB; a
\* batch appends exactly its acceptable files, in order, after the files
\* already accepted, and sets the one warning iff it dropped a file.
C5_OnlyAcceptableFilesKept ==
  /\ [](\A i \in 1..Len(uploadedFiles) : acceptable(uploadedFiles[i]))
  /\ [][\A items \in UNION {[1..n -> TestFiles] : n \in 0..MaxBatch} :
          (lastOp' = "handleFiles" /\ handleFiles(FileList(items))) =>
            /\ uploadedFiles' = uploadedFiles \o SelectSeq(items, acceptable)
            /\ (\E i \in 1..Len(items) : ~acceptable(items[i]))
                 => error' = InvalidFilesMessage
            /\ (\A i \in 1..Len(items) : acceptable(items[i]))
                 => error' = error]_vars

\* a batch left the PDF just under the limit in the set and raised the warning
C5_Witness ==
  /\ lastOp = "handleFiles"
  /\ uploadedFiles = <<PdfFile>>
  /\ error = InvalidFilesMessage

\* --------------------------------------------------------------- religion
generalModalities ==
  {"Hikmat (Traditional Herbal)", "Homeopathy", "Allopathy (Specialist Doctors)"}

\* C6: a change of religion from a value with an implied label removes that
\* label and keeps every other selected label; a change of any other field
\* or input leaves the selection as it was.
C6_ReligionChangeDropsOnlyImplied ==
  /\ [][lastOp' = "handleInputChange(religion)" =>
          /\ patientInfo'.religion # patientInfo.religion
          /\ IF patientInfo.religion \in DOMAIN ReligiousTreatments
               THEN /\ ReligiousTreatments[patientInfo.religion] \notin selectedTreatments'
                    /\ \A t \in generalModalities \cup selectedTreatments
                                \cup selectedTreatments' :
                         t # ReligiousTreatments[patientInfo.religion]
                           => (t \in selectedTreatments' <=> t \in selectedTreatments)
               ELSE selectedTreatments' = selectedTreatments]_vars
  /\ [][lastOp' \in {"handleInputChange", "setSymptomDescription",
                     "setReportComments", "setActiveTab"}
          => selectedTreatments' = selectedTreatments]_vars

\* the religion went to Christianity; the general modalities chosen before
\* are still selected and no religious label is
C6_Witness ==
  /\ lastOp = "handleInputChange(religion)"
  /\ patientInfo.religion = "Christianity"
  /\ selectedTreatments = {"Homeopathy", "Allopathy (Specialist Doctors)"}

\* --------------------------------------------------------------- failures
\* the message the error banner shows, if any: {error && <div ...>{error}</div>}
messageShown == truthy(error) /\ error.js = "string"

\* C7: a submission that fails while reading an attachment, in the call or on
\* a reply that cannot be parsed ends in Error with a message shown, and the
\* entered data are as they were.
C7_FailureKeepsFormAndShowsMessage ==
  [][(\/ lastOp' \in {"readerOnerror", "generateContentRejects"}
      \/ generateContentResolves(InvalidJson))
       => /\ isLoading /\ ~isLoading'
          /\ ~truthy(prescription')
          /\ truthy(error') /\ error'.js = "string"
          /\ UNCHANGED formVars]_vars

\* C8: when the read of an attachment fails, the submission is aborted: no
\* call was issued for it, no Result is set, and a failure message is shown.
C8_ReadFailureAbortsWithMessage ==
  lastOp = "readerOnerror"
  => /\ calls = 0 /\ outstanding = 0 /\ request = NoRequest
     /\ ~isLoading
     /\ ~truthy(prescription)
     /\ messageShown

\* ------------------------------------------------------------ edit, reset
\* C9: edit in the Result state discards the Result and changes nothing else.
C9_EditKeepsEnteredData ==
  [][lastOp' = "handleEdit" =>
       /\ truthy(prescription)
       /\ prescription' = Null
       /\ ~isLoading'
       /\ UNCHANGED formVars]_vars

\* the form is back after an edit and still holds the files, the comments,
\* the optional cell number and the upload tab
C9_Witness ==
  /\ lastOp = "handleEdit"
  /\ formShown /\ ~isLoading
  /\ activeTab = "upload"
  /\ Len(uploadedFiles) = 2
  /\ reportComments = <<"x">>
  /\ patientInfo.cell = "0300"
  /\ patientInfo.language = "Urdu"

\* C10: after a reset the state is the initial state of a session.
C10_ResetRestoresInitialState ==
  lastOp = "resetForm" => (initialState /\ pc = "idle" /\ outstanding = 0)

C10_Witness ==
  /\ lastOp = "resetForm"
  /\ formShown
  /\ patientInfo.name = "" /\ uploadedFiles = <<>> /\ selectedTreatments = {}

\* --------------------------------------------------------------- progress
\* C11: every accepted submission leaves Submitting, whether it succeeds or
\* fails: isLoading becomes false with nothing pending, and the session shows
\* the Result or a form that accepts a new submit.
C11_SubmittingEnds ==
  isLoading ~> (/\ ~isLoading /\ pc = "idle" /\ outstanding = 0
                /\ (truthy(prescription) \/ submitEnabled))

\* a failed read ended the submission and the form accepts a submit again
C11_Witness ==
  /\ lastOp = "readerOnerror"
  /\ ~isLoading /\ pc = "idle" /\ submitEnabled

\* ---------------------------------------------------------------- ordering
\* C12: the attachments passed to the call are those of the accepted files,
\* in the order of the accepted set, in whatever order the reads ended.
C12_AttachmentsInSelectionOrder ==
  pc = "calling"
  => /\ Len(request.files) = Len(uploadedFiles)
     /\ \A j \in 1..Len(uploadedFiles) :
          /\ request.files[j].inlineData.mimeType = uploadedFiles[j].type
          /\ request.files[j].inlineData.data = <<"base64", uploadedFiles[j].content>>

\* the read of the second file ended first, and the call holds the PDF first
C12_Witness ==
  /\ pc = "calling"
  /\ uploadedFiles = <<PdfFile, PngFile>>
  /\ loadOrder = <<2, 1>>
  /\ request.files[1].inlineData.mimeType = "application/pdf"

\* ------------------------------------------------------------- the prompt
range(seq) == {seq[i] : i \in 1..Len(seq)}

\* the labels a joined list names: its items, without the separators
listed(joined) == {joined[k] : k \in {i \in 1..Len(joined) : i % 2 = 1}}

\* C13: the task variant follows attachment presence alone.  With at least
\* one attachment the prompt has the report analysis step (abnormal findings
\* only) and tells prescriptionContent to start with the Report Analysis
\* Summary; with none it tells one heading per treatment type; either way the
\* methodologies it lists are exactly the selected treatments.
C13_TaskVariantFollowsAttachments ==
  pc = "calling"
  => LET task == request.prompt.task
         structure == range(task.responseStructure)
     IN /\ Len(request.files) >= 1
             => /\ <<StartWithReportSummary>> \in structure
                /\ \A line \in structure : line[1] # HeadingPerTreatment
                /\ "Analyze Reports" \in range(task.steps)
                /\ "analysis" \in DOMAIN task
                /\ OnlyAbnormalFindings \in range(task.analysis)
        /\ Len(request.files) = 0
             => /\ \E line \in structure : line[1] = HeadingPerTreatment
                /\ <<StartWithReportSummary>> \notin structure
                /\ "Analyze Reports" \notin range(task.steps)
        /\ listed(task.methodologies) = selectedTreatments
        /\ Len(task.methodologies) = 2 * Cardinality(selectedTreatments) - 1

\* a single report was attached and two treatments are selected
C13_Witness ==
  /\ pc = "calling"
  /\ Len(request.files) = 1
  /\ Cardinality(selectedTreatments) = 2
  /\ <<StartWithReportSummary>> \in range(request.prompt.task.responseStructure)

religiousLabels == {ReligiousTreatments[r] : r \in DOMAIN ReligiousTreatments}

\* the formatting rules after the three fixed ones
appendedRules == SubSeq(request.prompt.formattingRules, 4,
                        Len(request.prompt.formattingRules))

\* C14: the religious fragments appended to the prompt are exactly the fixed
\* fragments of the selected religious labels, one per label; with the Islam
\* label selected and Urdu as the language the prompt holds the Urdu-script
\* mandate for the Islam content and names Urdu as the response language; the
\* allopathy medicine, dosage, duration bullet format rule is present.
C14_ReligiousFragmentsOfSelection ==
  pc = "calling"
  => /\ range(appendedRules)
          = {religiousTreatmentPrompts[label] :
               label \in selectedTreatments \cap religiousLabels}
     /\ Len(appendedRules) = Cardinality(selectedTreatments \cap religiousLabels)
     /\ ( /\ ReligiousTreatments["Islam"] \in selectedTreatments
          /\ patientInfo.language = "Urdu" )
          => /\ \E rule \in range(appendedRules) :
                  /\ rule.pieces[2] = ReligiousTreatments["Islam"]
                  /\ UrduScriptMandate \in range(rule.pieces)
             /\ request.prompt.primaryLanguageRule[2] = "Urdu"
     /\ \E rule \in range(request.prompt.formattingRules) :
          /\ rule.pieces[1] = AllopathyRule.pieces[1]
          /\ \A k \in 1..Len(AllopathyFormat) : AllopathyFormat[k] \in range(rule.pieces)

\* Aisha, 29, Lahore, Islam, Urdu; allopathy and the Islam label; text mode
C14_Witness ==
  /\ pc = "calling"
  /\ patientInfo.name = "Aisha" /\ patientInfo.age = "29"
  /\ patientInfo.district = "Lahore" /\ patientInfo.religion = "Islam"
  /\ patientInfo.language = "Urdu"
  /\ selectedTreatments = {"Allopathy (Specialist Doctors)", "Quran & Asma-ul-Husna"}
  /\ activeTab = "text" /\ uploadedFiles = <<>>
  /\ request.illnessDescription = <<"x">>
  /\ Len(appendedRules) = 1

\* ------------------------------------------------------ selection invariant
\* the label implied by the current religion, if it implies one
impliedLabels ==
  IF patientInfo.religion \in DOMAIN ReligiousTreatments
    THEN {ReligiousTreatments[patientInfo.religion]} ELSE {}

\* C15: in every reachable state the selected treatments are among the three
\* general modalities and the one label implied by the current religion: at
\* most one religious label, never that of another religion, and none when
\* the religion is empty or Other.
C15_SelectionWithinOfferedLabels ==
  /\ selectedTreatments \subseteq generalModalities \cup impliedLabels
  /\ Cardinality(selectedTreatments \cap religiousLabels) <= 1
  /\ patientInfo.religion \in {"", "Other"}
       => selectedTreatments \cap religiousLabels = {}

\* the religion is Christianity and its label is selected with a general one
C15_Witness ==
  /\ lastOp = "handleTreatmentToggle"
  /\ patientInfo.religion = "Christianity"
  /\ selectedTreatments = {"Biblical Healing & Prayer", "Homeopathy"}

\* -------------------------------------------------------------- input mode
\* C16: the submission matches the input mode active at submit time: in text
\* mode the call carries the symptom text and no attachment, so the task is
\* the one without attachments; in upload mode it carries the report comments
\* and the accepted attachments.  Files accepted earlier are never sent with
\* a text-mode submission.
C16_VariantMatchesActiveMode ==
  pc = "calling"
  => /\ activeTab = "text"
          => /\ request.illnessDescription = symptomDescription
             /\ Len(request.files) = 0
             /\ ~request.hasFiles
             /\ "Analyze Reports" \notin range(request.prompt.task.steps)
     /\ activeTab = "upload"
          => /\ request.illnessDescription = reportComments
             /\ Len(request.files) = Len(uploadedFiles)
             /\ Len(request.files) >= 1
             /\ request.hasFiles

====
